---- MODULE Spec2Model ----
(***************************************************************************)
(* The Server-Sent Events encoders of sse_starlette: event_function.py     *)
(* (ServerSentEvent, event_from_bytes, ensure_bytes) and event_class.py    *)
(* (ServerSentEventABC, ServerSentEvent, ServerSentEventBytes,             *)
(* ensure_bytes).                                                          *)
(*                                                                         *)
(* A Python value is a record [t, s, n]: t is its type, s its characters   *)
(* (code points of a str, bytes of a bytes object), n its number.          *)
(* A frame is a sequence of bytes.                                         *)
(***************************************************************************)
EXTENDS Integers, Sequences, FiniteSets

VARIABLES
    call,      \* the call under way: the function, its arguments
    result,    \* what the call gave back: a buffer, or the exception raised
    mapping,   \* the field mapping (a dict) the caller shares by reference
    given,     \* that mapping as the caller built it
    pc,        \* per thread: where it stands inside ensure_bytes
    tsep,      \* per thread: the sep argument of its ensure_bytes call
    tres       \* per thread: what its ensure_bytes call gave back

vars == <<call, result, mapping, given, pc, tsep, tres>>

(***************************************************************************)
(* Bounds of the model.                                                    *)
(***************************************************************************)
MaxLen == 3
NThreads == 2

(***************************************************************************)
(* Python values.                                                          *)
(***************************************************************************)
CR == 13
LF == 10

None == [t |-> "None", s |-> <<>>, n |-> 0]
Absent == [t |-> "absent", s |-> <<>>, n |-> 0]
StrV(s) == [t |-> "str", s |-> s, n |-> 0]
BytesV(s) == [t |-> "bytes", s |-> s, n |-> 0]
IntV(n) == [t |-> "int", s |-> <<>>, n |-> n]
BoolV(n) == [t |-> "bool", s |-> <<>>, n |-> n]
\* the float n + 0.5
FloatV(n) == [t |-> "float", s |-> <<>>, n |-> n]
\* the value of an expression that raised TypeError
Raised == [t |-> "TypeError", s |-> <<>>, n |-> 0]

RECURSIVE DecNat(_)
DecNat(n) ==
    IF n < 10 THEN <<48 + n>> ELSE DecNat(n \div 10) \o <<48 + (n % 10)>>

\* str(n) of an int
Dec(n) ==
    IF n < 0 THEN <<45>> \o DecNat(0 - n) ELSE DecNat(n)

\* str(v)
PyStr(v) ==
    CASE v.t = "None" -> <<78, 111, 110, 101>>
      [] v.t = "str" -> v.s
      [] v.t = "int" -> Dec(v.n)
      [] v.t = "bool" -> IF v.n = 0 THEN <<70, 97, 108, 115, 101>>
                                    ELSE <<84, 114, 117, 101>>
      [] v.t = "float" -> Dec(v.n) \o <<46, 53>>
      [] OTHER -> <<63>>

\* isinstance(v, int): bool is a subclass of int
IsInt(v) ==
    v.t \in {"int", "bool"}

RECURSIVE Utf8(_)
\* s.encode("utf-8"), for code points below 2048
Utf8(s) ==
    IF s = <<>> THEN <<>>
    ELSE LET c == Head(s)
         IN  (IF c < 128 THEN <<c>>
              ELSE <<192 + (c \div 64), 128 + (c % 64)>>) \o Utf8(Tail(s))

(***************************************************************************)
(* The regular expression \r\n|\r|\n, on characters or on bytes.           *)
(***************************************************************************)
RECURSIVE SplitFrom(_, _, _)
SplitFrom(s, i, cur) ==
    IF i > Len(s) THEN <<cur>>
    ELSE IF s[i] = CR /\ i < Len(s) /\ s[i + 1] = LF
         THEN <<cur>> \o SplitFrom(s, i + 2, <<>>)
    ELSE IF s[i] = CR \/ s[i] = LF
         THEN <<cur>> \o SplitFrom(s, i + 1, <<>>)
    ELSE SplitFrom(s, i + 1, Append(cur, s[i]))

RECURSIVE SplitEachFrom(_, _, _)
SplitEachFrom(s, i, cur) ==
    IF i > Len(s) THEN <<cur>>
    ELSE IF s[i] = CR \/ s[i] = LF
         THEN <<cur>> \o SplitEachFrom(s, i + 1, <<>>)
    ELSE SplitEachFrom(s, i + 1, Append(cur, s[i]))

\* a split on \r|\n, which takes a CRLF for two line breaks
Split_CRLFTwice(s) ==
    SplitEachFrom(s, 1, <<>>)

\* _LINE_SEP_EXPR.split(s): the chunks between the matches
LINE_SEP_EXPR_split(s) ==
    SplitFrom(s, 1, <<>>)

RECURSIVE Flatten(_)
Flatten(ss) ==
    IF ss = <<>> THEN <<>> ELSE Head(ss) \o Flatten(Tail(ss))

\* a sub that cleans nothing
Sub_KeepsNewlines(s) ==
    s

\* _LINE_SEP_EXPR.sub("", s): s without the matches
LINE_SEP_EXPR_sub(s) ==
    Flatten(SplitFrom(s, 1, <<>>))

\* whether _LINE_SEP_EXPR matches somewhere in s
LINE_SEP_EXPR_search(s) ==
    \E i \in 1..Len(s) : s[i] = CR \/ s[i] = LF

(***************************************************************************)
(* Constants of the two files.                                             *)
(***************************************************************************)
DEFAULT_SEPARATOR == <<CR, LF>>
DEFAULT_SEPARATOR_BYTES == <<CR, LF>>
ServerSentEventBytes_DEFAULT_SEPARATOR == <<LF>>

TAG_COMMENT == <<58, 32>>
TAG_ID == <<105, 100, 58, 32>>
TAG_EVENT == <<101, 118, 101, 110, 116, 58, 32>>
TAG_DATA == <<100, 97, 116, 97, 58, 32>>
TAG_RETRY == <<114, 101, 116, 114, 121, 58, 32>>

(***************************************************************************)
(* A buffer being written: [status, buf]; a write after a raise is never   *)
(* executed.                                                               *)
(***************************************************************************)
NewBuffer == [status |-> "ok", buf |-> <<>>]

Raise(st) == [st EXCEPT !.status = "TypeError"]

\* io.StringIO.write takes a str, io.BytesIO.write takes bytes
BufferWrite(kind, st, v) ==
    IF st.status # "ok" THEN st
    ELSE IF v.t = kind THEN [st EXCEPT !.buf = st.buf \o v.s]
    ELSE Raise(st)

\* what the caller gets: the value returned, or the exception and no buffer
\* (entered: how many times the body of an encode method was entered)
Returned(b) == [status |-> "returned", buf |-> b, entered |-> 1]
RaisedTypeError == [status |-> "TypeError", buf |-> <<>>, entered |-> 1]
Pending == [status |-> "pending", buf |-> <<>>, entered |-> 0]

(***************************************************************************)
(* event_function.py                                                       *)
(***************************************************************************)
\* self._sep = sep if sep is not None else self.DEFAULT_SEPARATOR
FunctionEvent_init(args) ==
    [args EXCEPT !.sep = IF args.sep.t = "None" THEN StrV(DEFAULT_SEPARATOR)
                         ELSE args.sep]

RECURSIVE FormatChunks(_, _, _, _)
\* for chunk in chunks: buffer.write(f"{tag}{chunk}{sep}")
FormatChunks(st, tag, chunks, sep) ==
    IF chunks = <<>> THEN st
    ELSE FormatChunks(BufferWrite("str", st, StrV(tag \o Head(chunks) \o PyStr(sep))),
                      tag, Tail(chunks), sep)

\* tag + self._LINE_SEP_EXPR.sub("", v) + self._sep
FunctionCleanLine(tag, v, sep) ==
    IF v.t = "str" /\ sep.t = "str"
    THEN StrV(tag \o LINE_SEP_EXPR_sub(v.s) \o sep.s)
    ELSE Raised

FunctionComment(st, ev) ==
    IF ev.comment.t = "None" THEN st
    ELSE FormatChunks(st, TAG_COMMENT, LINE_SEP_EXPR_split(PyStr(ev.comment)), ev.sep)

FunctionId(st, ev) ==
    IF ev.id.t = "None" THEN st
    ELSE BufferWrite("str", st, FunctionCleanLine(TAG_ID, ev.id, ev.sep))

FunctionEventName(st, ev) ==
    IF ev.event.t = "None" THEN st
    ELSE BufferWrite("str", st, FunctionCleanLine(TAG_EVENT, ev.event, ev.sep))

FunctionData(st, ev) ==
    IF ev.data.t = "None" THEN st
    ELSE FormatChunks(st, TAG_DATA, LINE_SEP_EXPR_split(PyStr(ev.data)), ev.sep)

FunctionRetry(st, ev) ==
    IF ev.retry.t = "None" \/ st.status # "ok" THEN st
    ELSE IF ~IsInt(ev.retry) THEN Raise(st)
    ELSE BufferWrite("str", st, StrV(TAG_RETRY \o PyStr(ev.retry) \o PyStr(ev.sep)))

\* ServerSentEvent.encode of event_function.py
ServerSentEvent_encode(ev) ==
    LET st == BufferWrite("str",
                  FunctionRetry(
                      FunctionData(
                          FunctionEventName(
                              FunctionId(
                                  FunctionComment(NewBuffer, ev), ev), ev), ev), ev),
                  ev.sep)
    IN  IF st.status = "ok" THEN Returned(Utf8(st.buf)) ELSE RaisedTypeError

RECURSIVE WriteChunks(_, _, _, _, _)
\* for chunk in chunks: write(tag); write(chunk); write(sep)
WriteChunks(kind, st, tag, chunks, sep) ==
    IF chunks = <<>> THEN st
    ELSE WriteChunks(kind,
             BufferWrite(kind,
                 BufferWrite(kind,
                     BufferWrite(kind, st, [t |-> kind, s |-> tag, n |-> 0]),
                     [t |-> kind, s |-> Head(chunks), n |-> 0]),
                 sep),
             tag, Tail(chunks), sep)

\* a bytes pattern on v: split raises on anything but bytes
BytesSplit(st, tag, v, sep) ==
    IF v.t = "None" THEN st
    ELSE IF v.t # "bytes" THEN Raise(st)
    ELSE WriteChunks("bytes", st, tag, LINE_SEP_EXPR_split(v.s), sep)

\* write(tag); write(_LINE_SEP_EXPR_BYTES.sub(b"", v)); write(_sep)
BytesClean(st, tag, v, sep) ==
    IF v.t = "None" THEN st
    ELSE IF v.t # "bytes" THEN Raise(st)
    ELSE WriteChunks("bytes", st, tag, <<LINE_SEP_EXPR_sub(v.s)>>, sep)

BytesRetry(st, retry, sep) ==
    IF retry.t = "None" \/ st.status # "ok" THEN st
    ELSE IF ~IsInt(retry) THEN Raise(st)
    ELSE WriteChunks("bytes", st, TAG_RETRY, <<Utf8(PyStr(retry))>>, sep)

\* event_from_bytes(self, data, *, event, id, retry, comment, sep)
event_from_bytes(args) ==
    LET sep == IF args.sep.t = "None" THEN BytesV(DEFAULT_SEPARATOR_BYTES)
               ELSE args.sep
        st == BufferWrite("bytes",
                  BytesRetry(
                      BytesSplit(
                          BytesClean(
                              BytesClean(
                                  BytesSplit(NewBuffer, TAG_COMMENT, args.comment, sep),
                                  TAG_ID, args.id, sep),
                              TAG_EVENT, args.event, sep),
                          TAG_DATA, args.data, sep),
                      args.retry, sep),
                  sep)
    IN  IF st.status = "ok" THEN Returned(st.buf) ELSE RaisedTypeError

\* ServerSentEvent(data as keywords): a key the mapping lacks takes its default, None
FromMapping(m) ==
    [f \in DOMAIN m |-> IF m[f].t = "absent" THEN None ELSE m[f]]

\* data["sep"] = sep
StoreSep(m, sep) ==
    [m EXCEPT !.sep = sep]

\* an ensure_bytes that puts its sep on an event it is given
Ensure_bytes_SepOverEvent(x, m, sep) ==
    IF x.kind = "bytes" THEN [Returned(x.v.s) EXCEPT !.entered = 0]
    ELSE IF x.kind = "event"
         THEN ServerSentEvent_encode(FunctionEvent_init(StoreSep(m, sep)))
    ELSE IF x.kind = "mapping"
         THEN ServerSentEvent_encode(FunctionEvent_init(FromMapping(StoreSep(m, sep))))
    ELSE ServerSentEvent_encode(
             FunctionEvent_init([data |-> StrV(PyStr(x.v)), event |-> None, id |-> None,
                                 retry |-> None, comment |-> None, sep |-> sep]))

\* ensure_bytes of event_function.py; m holds the fields of the event or the dict
Function_ensure_bytes(x, m, sep) ==
    IF x.kind = "bytes" THEN [Returned(x.v.s) EXCEPT !.entered = 0]
    ELSE IF x.kind = "event"
         THEN ServerSentEvent_encode(FunctionEvent_init(m))
    ELSE IF x.kind = "mapping"
         THEN ServerSentEvent_encode(FunctionEvent_init(FromMapping(StoreSep(m, sep))))
    ELSE ServerSentEvent_encode(
             FunctionEvent_init([data |-> StrV(PyStr(x.v)), event |-> None, id |-> None,
                                 retry |-> None, comment |-> None, sep |-> sep]))

(***************************************************************************)
(* event_class.py                                                          *)
(***************************************************************************)
\* ServerSentEvent.__init__: self.data = str(data)
ClassEvent_init(args) ==
    [args EXCEPT !.data = StrV(PyStr(args.data)),
                 !.sep = IF args.sep.t = "None" THEN StrV(DEFAULT_SEPARATOR)
                         ELSE args.sep]

\* ServerSentEventBytes.__init__
ClassEventBytes_init(args) ==
    [args EXCEPT !.sep = IF args.sep.t = "None"
                         THEN BytesV(ServerSentEventBytes_DEFAULT_SEPARATOR)
                         ELSE args.sep]

\* for chunk in self._LINE_SEP_EXPR.split(v): write(tag); write(chunk); write(sep)
ClassSplit(kind, st, tag, v, sep) ==
    IF v.t = "None" THEN st
    ELSE IF v.t # kind THEN Raise(st)
    ELSE WriteChunks(kind, st, tag, LINE_SEP_EXPR_split(v.s), sep)

\* self._LINE_SEP_EXPR.sub(b"", v): the replacement is bytes in both classes,
\* and joining it to the pieces of a str raises; with no match v comes back
ClassSub(kind, v) ==
    IF v.t # kind THEN Raised
    ELSE IF kind = "bytes" THEN BytesV(LINE_SEP_EXPR_sub(v.s))
    ELSE IF LINE_SEP_EXPR_search(v.s) THEN Raised
    ELSE v

\* write(tag); write(self._LINE_SEP_EXPR.sub(b"", v)); write(self._sep)
ClassClean(kind, st, tag, v, sep) ==
    IF v.t = "None" THEN st
    ELSE BufferWrite(kind,
             BufferWrite(kind,
                 BufferWrite(kind, st, [t |-> kind, s |-> tag, n |-> 0]),
                 ClassSub(kind, v)),
             sep)

\* write(TAG_RETRY); write(str(self.retry).encode("utf-8")); write(self._sep)
ClassRetry(kind, st, retry, sep) ==
    IF retry.t = "None" \/ st.status # "ok" THEN st
    ELSE IF ~IsInt(retry) THEN Raise(st)
    ELSE BufferWrite(kind,
             BufferWrite(kind,
                 BufferWrite(kind, st, [t |-> kind, s |-> TAG_RETRY, n |-> 0]),
                 BytesV(Utf8(PyStr(retry)))),
             sep)

\* ServerSentEventABC._encode(write), write being that of a buffer of this kind
ServerSentEventABC_encode(kind, ev) ==
    BufferWrite(kind,
        ClassRetry(kind,
            ClassSplit(kind,
                ClassClean(kind,
                    ClassClean(kind,
                        ClassSplit(kind, NewBuffer, TAG_COMMENT, ev.comment, ev.sep),
                        TAG_ID, ev.id, ev.sep),
                    TAG_EVENT, ev.event, ev.sep),
                TAG_DATA, ev.data, ev.sep),
            ev.retry, ev.sep),
        ev.sep)

\* ServerSentEvent.encode of event_class.py
ClassServerSentEvent_encode(ev) ==
    LET st == ServerSentEventABC_encode("str", ev)
    IN  IF st.status = "ok" THEN Returned(Utf8(st.buf)) ELSE RaisedTypeError

RECURSIVE BytesEncodeCall(_, _, _)
\* a call of ServerSentEventBytes.encode with nargs arguments after self: the
\* method takes none, so binding more raises before the body is entered; the
\* body calls self.encode(buffer.write)
BytesEncodeCall(ev, nargs, entered) ==
    IF nargs # 0 THEN [RaisedTypeError EXCEPT !.entered = entered]
    ELSE BytesEncodeCall(ev, 1, entered + 1)

\* an encode that hands the buffer's write to _encode
BytesEncode_Delegates(ev) ==
    LET st == ServerSentEventABC_encode("bytes", ev)
    IN  IF st.status = "ok" THEN Returned(st.buf) ELSE RaisedTypeError

\* ServerSentEventBytes.encode()
ServerSentEventBytes_encode(ev) ==
    BytesEncodeCall(ev, 0, 0)

\* ensure_bytes of event_class.py; m holds the fields of the event (x.cls its
\* class) or the dict
Class_ensure_bytes(x, m, sep) ==
    IF x.kind = "bytes" THEN [Returned(x.v.s) EXCEPT !.entered = 0]
    ELSE IF x.kind = "event"
         THEN IF x.cls = "ServerSentEventBytes"
              THEN ServerSentEventBytes_encode(ClassEventBytes_init(m))
              ELSE ClassServerSentEvent_encode(ClassEvent_init(m))
    ELSE IF x.kind = "mapping"
         THEN ClassServerSentEvent_encode(ClassEvent_init(FromMapping(StoreSep(m, sep))))
    ELSE ClassServerSentEvent_encode(
             ClassEvent_init([data |-> x.v, event |-> None, id |-> None,
                              retry |-> None, comment |-> None, sep |-> sep]))

(***************************************************************************)
(* The calls: the arguments are drawn at the start, each call runs once.   *)
(***************************************************************************)
Alphabet == {97, LF, CR}

Strings == UNION {[1..k -> Alphabet] : k \in 0..MaxLen}

Val(kind, s) == [t |-> kind, s |-> s, n |-> 0]

TextFields == {"data", "event", "id", "comment"}

\* the values of field f when the draw varies field rich
FieldVals(kind, rich, f) ==
    IF f = rich THEN {None} \cup {Val(kind, s) : s \in Strings}
    ELSE {None, Val(kind, <<233>>)}
         \cup (IF f = "data" /\ kind = "str" THEN {IntV(12)} ELSE {})

RetryVals(rich) ==
    IF rich = "retry"
    THEN {None, IntV(5000), IntV(0 - 7), BoolV(1), FloatV(1), StrV(<<53>>)}
    ELSE {None, IntV(5000)}

SepVals(kind) ==
    {None, Val(kind, <<LF>>), Val(kind, <<CR>>), Val(kind, <<CR, LF>>),
     Val(kind, <<124>>)}

EventArgs(kind) ==
    UNION {[data : FieldVals(kind, rich, "data"),
            event : FieldVals(kind, rich, "event"),
            id : FieldVals(kind, rich, "id"),
            retry : RetryVals(rich),
            comment : FieldVals(kind, rich, "comment"),
            sep : SepVals(kind)] : rich \in TextFields \cup {"retry"}}

\* the events and dicts handed to ensure_bytes
SmallArgs(kind) ==
    [data : {None, Val(kind, <<97, LF, 97>>)},
     event : {None},
     id : {None, Val(kind, <<233>>)},
     retry : {None, IntV(5000)},
     comment : {None},
     sep : {None, Val(kind, <<124>>)}]

Mappings ==
    [data : {Absent, StrV(<<97, LF, 97>>), IntV(12)},
     event : {Absent, StrV(<<233>>)},
     id : {Absent},
     retry : {Absent, IntV(5000)},
     comment : {Absent},
     sep : {Absent, StrV(<<CR>>)}]

NoArgs ==
    [data |-> None, event |-> None, id |-> None, retry |-> None,
     comment |-> None, sep |-> None]

NoMapping ==
    [data |-> Absent, event |-> Absent, id |-> Absent, retry |-> Absent,
     comment |-> Absent, sep |-> Absent]

NoX == [kind |-> "-", cls |-> "-", v |-> None]

DispatchSeps == {None, StrV(<<LF>>), StrV(<<124>>)}

TextEncoders == {"function.ServerSentEvent.encode", "class.ServerSentEvent.encode"}
BytesEncoders == {"function.event_from_bytes", "class.ServerSentEventBytes.encode"}
Encoders == TextEncoders \cup BytesEncoders
Dispatchers == {"function.ensure_bytes", "class.ensure_bytes"}

Threads == 1..NThreads

EncoderCalls ==
    [fn : TextEncoders, args : EventArgs("str"), x : {NoX}, sep : {None}]
    \cup [fn : BytesEncoders, args : EventArgs("bytes"), x : {NoX}, sep : {None}]

\* the arguments ensure_bytes tells apart, but for the dict
DispatchArgs(fn) ==
    [kind : {"bytes"}, cls : {"-"}, v : {BytesV(s) : s \in Strings}]
    \cup [kind : {"other"}, cls : {"-"},
          v : {None, IntV(0 - 7), BoolV(1), FloatV(1)} \cup {StrV(s) : s \in Strings}]

DispatchCalls ==
    UNION {[fn : {fn}, args : {NoArgs}, x : DispatchArgs(fn), sep : DispatchSeps]
           : fn \in Dispatchers}
    \cup [fn : Dispatchers, args : SmallArgs("str"),
          x : {[kind |-> "event", cls |-> "ServerSentEvent", v |-> None]},
          sep : DispatchSeps]
    \cup [fn : {"class.ensure_bytes"}, args : SmallArgs("bytes"),
          x : {[kind |-> "event", cls |-> "ServerSentEventBytes", v |-> None]},
          sep : DispatchSeps]

MappingCalls ==
    [fn : Dispatchers, args : {NoArgs},
     x : {[kind |-> "mapping", cls |-> "-", v |-> None]}, sep : DispatchSeps]

Init ==
    /\ \/ /\ call \in EncoderCalls \cup DispatchCalls
          /\ mapping = NoMapping
       \/ /\ call \in MappingCalls
          /\ mapping \in Mappings
    /\ given = mapping
    /\ result = Pending
    /\ pc = [t \in Threads |-> "idle"]
    /\ tsep = [t \in Threads |-> None]
    /\ tres = [t \in Threads |-> Pending]

\* the fields ensure_bytes reads: the event's, or the dict's
Fields ==
    IF call.x.kind = "mapping" THEN mapping ELSE call.args

Runs(fn) ==
    /\ call.fn = fn
    /\ result.status = "pending"

EncodeFunctionText ==
    /\ Runs("function.ServerSentEvent.encode")
    /\ result' = ServerSentEvent_encode(FunctionEvent_init(call.args))
    /\ UNCHANGED <<call, mapping, given, pc, tsep, tres>>

EventFromBytes ==
    /\ Runs("function.event_from_bytes")
    /\ result' = event_from_bytes(call.args)
    /\ UNCHANGED <<call, mapping, given, pc, tsep, tres>>

EncodeClassText ==
    /\ Runs("class.ServerSentEvent.encode")
    /\ result' = ClassServerSentEvent_encode(ClassEvent_init(call.args))
    /\ UNCHANGED <<call, mapping, given, pc, tsep, tres>>

EncodeClassBytes ==
    /\ Runs("class.ServerSentEventBytes.encode")
    /\ result' = ServerSentEventBytes_encode(ClassEventBytes_init(call.args))
    /\ UNCHANGED <<call, mapping, given, pc, tsep, tres>>

EnsureBytesFunction ==
    /\ Runs("function.ensure_bytes")
    /\ result' = Function_ensure_bytes(call.x, Fields, call.sep)
    /\ mapping' = IF call.x.kind = "mapping" THEN StoreSep(mapping, call.sep)
                  ELSE mapping
    /\ UNCHANGED <<call, given, pc, tsep, tres>>

EnsureBytesClass ==
    /\ Runs("class.ensure_bytes")
    /\ result' = Class_ensure_bytes(call.x, Fields, call.sep)
    /\ mapping' = IF call.x.kind = "mapping" THEN StoreSep(mapping, call.sep)
                  ELSE mapping
    /\ UNCHANGED <<call, given, pc, tsep, tres>>

Next ==
    \/ EncodeFunctionText
    \/ EventFromBytes
    \/ EncodeClassText
    \/ EncodeClassBytes
    \/ EnsureBytesFunction
    \/ EnsureBytesClass

Spec == Init /\ [][Next]_vars

(***************************************************************************)
(* Threads calling ensure_bytes on one dict, each with its own sep. The    *)
(* dict branch is two steps a thread switch can come between: the store    *)
(* data["sep"] = sep, then ServerSentEvent(data as keywords).encode(), which reads   *)
(* the dict once and works on its own event and buffer from there.         *)
(***************************************************************************)
ThreadSeps == {StrV(<<LF>>), StrV(<<CR, LF>>)}

InitThreads ==
    /\ call \in [fn : Dispatchers, args : {NoArgs},
                  x : {[kind |-> "mapping", cls |-> "-", v |-> None]}, sep : {None}]
    /\ mapping \in Mappings
    /\ given = mapping
    /\ result = Pending
    /\ pc = [t \in Threads |-> "start"]
    /\ tsep \in [Threads -> ThreadSeps]
    /\ tres = [t \in Threads |-> Pending]

\* data["sep"] = sep
ThreadStore(t) ==
    /\ pc[t] = "start"
    /\ mapping' = [mapping EXCEPT !.sep = tsep[t]]
    /\ pc' = [pc EXCEPT ![t] = "stored"]
    /\ UNCHANGED <<call, result, given, tsep, tres>>

\* return ServerSentEvent(data as keywords).encode()
ThreadEncode(t) ==
    /\ pc[t] = "stored"
    /\ tres' = [tres EXCEPT ![t] =
                   IF call.fn = "function.ensure_bytes"
                   THEN ServerSentEvent_encode(FunctionEvent_init(FromMapping(mapping)))
                   ELSE ClassServerSentEvent_encode(ClassEvent_init(FromMapping(mapping)))]
    /\ pc' = [pc EXCEPT ![t] = "done"]
    /\ UNCHANGED <<call, result, mapping, given, tsep>>

NextThreads ==
    \E t \in Threads : ThreadStore(t) \/ ThreadEncode(t)

SpecThreads == InitThreads /\ [][NextThreads]_vars

(***************************************************************************)
(* What the claims speak of: the frame a call should give, written from    *)
(* the wire format and not from the encoders.                              *)
(***************************************************************************)
IsNewline(c) == c = CR \/ c = LF

\* the positions where a line break starts: a CR, or a LF that does not
\* complete a CRLF
BreakStarts(s) ==
    {i \in 1..Len(s) : IsNewline(s[i]) /\ ~(s[i] = LF /\ i > 1 /\ s[i - 1] = CR)}

RECURSIVE Pick(_, _, _)
\* the characters of s, from position i on, whose position is in keep
Pick(s, keep, i) ==
    IF i > Len(s) THEN <<>>
    ELSE (IF i \in keep THEN <<s[i]>> ELSE <<>>) \o Pick(s, keep, i + 1)

\* the lines of s: one more than its line breaks, each the characters between
\* two breaks
LinesOf(s) ==
    LET starts == BreakStarts(s)
        before == [i \in 1..Len(s) |-> Cardinality({b \in starts : b < i})]
    IN  [j \in 1..(Cardinality(starts) + 1) |->
            Pick(s, {i \in 1..Len(s) : ~IsNewline(s[i]) /\ before[i] = j - 1}, 1)]

\* s with every newline character deleted
WithoutNewlines(s) ==
    Pick(s, {i \in 1..Len(s) : ~IsNewline(s[i])}, 1)

\* the lines joined by linefeeds
RECURSIVE JoinLF(_)
JoinLF(lines) ==
    IF Len(lines) = 1 THEN lines[1] ELSE lines[1] \o <<LF>> \o JoinLF(Tail(lines))

\* tag + line + sep for each line, in order
TaggedLines(tag, lines, sep) ==
    Flatten([j \in 1..Len(lines) |-> tag \o lines[j] \o sep])

StartsWith(b, p) ==
    Len(p) <= Len(b) /\ SubSeq(b, 1, Len(p)) = p

EndsWith(b, p) ==
    Len(p) <= Len(b) /\ SubSeq(b, Len(b) - Len(p) + 1, Len(b)) = p

Occurrences(b, p) ==
    {i \in 0..(Len(b) - Len(p)) : SubSeq(b, i + 1, i + Len(p)) = p}

\* the bytes of text s in the frame of encoder fn
Wire(fn, s) ==
    IF fn \in TextEncoders THEN Utf8(s) ELSE s

KindOf(fn) ==
    IF fn \in TextEncoders THEN "str" ELSE "bytes"

\* the text of a field: a text-mode payload that is no string is sent as its str()
TextOf(v) ==
    IF v.t \in {"str", "bytes"} THEN v.s ELSE PyStr(v)

\* the separator a call is configured with: the override, else the default
\* its class or function declares
ConfiguredSep(c) ==
    IF c.args.sep.t # "None" THEN c.args.sep.s
    ELSE IF c.fn = "class.ServerSentEventBytes.encode"
         THEN ServerSentEventBytes_DEFAULT_SEPARATOR
    ELSE IF c.fn = "function.event_from_bytes" THEN DEFAULT_SEPARATOR_BYTES
    ELSE DEFAULT_SEPARATOR

\* the default of the representation: CRLF for text, LF for bytes
RepresentationDefault(fn) ==
    IF fn \in TextEncoders THEN <<CR, LF>> ELSE <<LF>>

AllNone(a) ==
    \A f \in {"data", "event", "id", "retry", "comment"} : a[f].t = "None"

\* the frame of the wire format: comment lines, id, event, data lines, retry,
\* terminator
ExpectedFrame(c) ==
    LET a == c.args
        sep == ConfiguredSep(c)
    IN  Wire(c.fn,
             (IF a.comment.t = "None" THEN <<>>
              ELSE TaggedLines(TAG_COMMENT, LinesOf(TextOf(a.comment)), sep))
             \o (IF a.id.t = "None" THEN <<>>
                 ELSE TAG_ID \o WithoutNewlines(TextOf(a.id)) \o sep)
             \o (IF a.event.t = "None" THEN <<>>
                 ELSE TAG_EVENT \o WithoutNewlines(TextOf(a.event)) \o sep)
             \o (IF a.data.t = "None" THEN <<>>
                 ELSE TaggedLines(TAG_DATA, LinesOf(TextOf(a.data)), sep))
             \o (IF a.retry.t = "None" THEN <<>>
                 ELSE TAG_RETRY \o Dec(a.retry.n) \o sep)
             \o sep)

\* what encoder fn gives on the arguments a
Outcome(fn, a) ==
    CASE fn = "function.ServerSentEvent.encode" ->
             ServerSentEvent_encode(FunctionEvent_init(a))
      [] fn = "function.event_from_bytes" -> event_from_bytes(a)
      [] fn = "class.ServerSentEvent.encode" ->
             ClassServerSentEvent_encode(ClassEvent_init(a))
      [] fn = "class.ServerSentEventBytes.encode" ->
             ServerSentEventBytes_encode(ClassEventBytes_init(a))

EncoderReturned ==
    call.fn \in Encoders /\ result.status = "returned"

EncoderDone ==
    call.fn \in Encoders /\ result.status # "pending"

(***************************************************************************)
(* The claims.                                                             *)
(***************************************************************************)

\* C1: every frame an encoder returns is the comment lines, the id line, the
\* event line, the data lines, the retry line and one terminating separator,
\* in this order; an absent field contributes no bytes, a present one its lines.
C1_FrameIsFieldsInOrder ==
    (EncoderReturned /\ call.args.retry.t \in {"None", "int"})
        => result.buf = ExpectedFrame(call)

\* C2: a returned frame ends with the configured separator; with a field
\* emitted that separator follows the separator of the last line, and with no
\* field set the frame is exactly one separator.
C2_EndsWithBlankLine ==
    EncoderReturned =>
        LET sep == Wire(call.fn, ConfiguredSep(call))
        IN  /\ EndsWith(result.buf, sep)
            /\ AllNone(call.args) => result.buf = sep
            /\ ~AllNone(call.args) => EndsWith(result.buf, sep \o sep)

\* C3: a data value of k lines, joined by any mix of CRLF, CR and LF (a CRLF
\* being one break), is emitted as exactly k lines "data: " + line + separator,
\* in order and unchanged; comment likewise with ": "; so the frame is the one
\* of the same lines joined by linefeeds.
C3_LinesSplitOnAnyNewline ==
    EncoderReturned =>
        LET a == call.args
            sep == ConfiguredSep(call)
            dataLines == LinesOf(TextOf(a.data))
            commentBlock == Wire(call.fn,
                                 TaggedLines(TAG_COMMENT, LinesOf(TextOf(a.comment)), sep))
            relined == [a EXCEPT
                           !.data = IF a.data.t \in {"str", "bytes"}
                                    THEN Val(a.data.t, JoinLF(LinesOf(a.data.s)))
                                    ELSE a.data,
                           !.comment = IF a.comment.t \in {"str", "bytes"}
                                       THEN Val(a.comment.t, JoinLF(LinesOf(a.comment.s)))
                                       ELSE a.comment]
        IN  /\ a.data.t # "None" =>
                /\ Occurrences(result.buf,
                               Wire(call.fn, TaggedLines(TAG_DATA, dataLines, sep))) # {}
                /\ Cardinality(Occurrences(result.buf, TAG_DATA)) = Len(dataLines)
            /\ a.comment.t # "None" =>
                /\ StartsWith(result.buf, commentBlock)
                /\ ~StartsWith(SubSeq(result.buf, Len(commentBlock) + 1, Len(result.buf)),
                               TAG_COMMENT)
            /\ result = Outcome(call.fn, relined)

\* C3's case: a frame returned for a data value of three lines, broken by a
\* CRLF and a lone LF
C3_Witness ==
    /\ EncoderReturned
    /\ call.fn = "class.ServerSentEvent.encode"
    /\ call.args.data.s = <<CR, LF, LF>>
    /\ Cardinality(Occurrences(result.buf, TAG_DATA)) = 3

\* C4: an id (an event name) holding newlines encodes, as one line "id: "
\* ("event: ") + the value without its newlines + separator; the value is never
\* split and none of its newline characters reaches the frame.
C4_IdEventOneCleanLine ==
    (EncoderDone /\ call.args.retry.t = "None") =>
        LET a == call.args
            sep == ConfiguredSep(call)
        IN  /\ result.status = "returned"
            /\ a.id.t # "None" =>
                /\ Occurrences(result.buf,
                       Wire(call.fn, TAG_ID \o WithoutNewlines(a.id.s) \o sep)) # {}
                /\ Cardinality(Occurrences(result.buf, TAG_ID)) = 1
            /\ a.event.t # "None" =>
                /\ Occurrences(result.buf,
                       Wire(call.fn, TAG_EVENT \o WithoutNewlines(a.event.s) \o sep)) # {}
                /\ Cardinality(Occurrences(result.buf, TAG_EVENT)) = 1
            /\ sep = <<124>> =>
                \A i \in 1..Len(result.buf) : ~IsNewline(result.buf[i])

\* C5: a retry that is present and no integer makes the call fail with a type
\* error and hand over no buffer; an integer retry never makes it fail and is
\* emitted as "retry: " + its decimal digits + separator.
C5_RetryTyping ==
    (EncoderDone /\ call.args.retry.t # "None") =>
        LET a == call.args
            sep == ConfiguredSep(call)
        IN  /\ a.retry.t = "int" =>
                /\ result.status = "returned"
                /\ EndsWith(result.buf,
                            Wire(call.fn, TAG_RETRY \o Dec(a.retry.n) \o sep \o sep))
            /\ a.retry.t \in {"str", "float"} =>
                /\ result.status = "TypeError"
                /\ result.buf = <<>>

\* C6: with no separator override a text-mode call gives what it gives with
\* the override CRLF, and a byte-mode call what it gives with the override LF.
C6_DefaultSeparators ==
    (EncoderDone /\ call.args.sep.t = "None") =>
        result = Outcome(call.fn,
                         [call.args EXCEPT
                             !.sep = Val(KindOf(call.fn), RepresentationDefault(call.fn))])

\* the fields of an event that has only data, and the separator sep
OnlyData(v, sep) ==
    [data |-> v, event |-> None, id |-> None, retry |-> None,
     comment |-> None, sep |-> sep]

\* what an event of the file of dispatcher fn, built from the arguments a,
\* encodes to
EncodingOf(fn, cls, a) ==
    IF fn = "function.ensure_bytes" THEN Outcome("function.ServerSentEvent.encode", a)
    ELSE IF cls = "ServerSentEventBytes"
         THEN Outcome("class.ServerSentEventBytes.encode", a)
    ELSE Outcome("class.ServerSentEvent.encode", a)

DispatchDone ==
    call.fn \in Dispatchers /\ result.status # "pending"

\* ensure_bytes of the file of dispatcher fn, on the byte buffer b
Redispatch(fn, b, sep) ==
    IF fn = "function.ensure_bytes"
    THEN Function_ensure_bytes([kind |-> "bytes", cls |-> "-", v |-> BytesV(b)], NoArgs, sep)
    ELSE Class_ensure_bytes([kind |-> "bytes", cls |-> "-", v |-> BytesV(b)], NoArgs, sep)

\* the three dispatch rules that come before the last
DispatchRules ==
    /\ call.x.kind = "bytes" =>
        /\ result.status = "returned"
        /\ result.buf = call.x.v.s
    /\ result.status = "returned" =>
        \A sep \in DispatchSeps :
            /\ Redispatch(call.fn, result.buf, sep).status = "returned"
            /\ Redispatch(call.fn, result.buf, sep).buf = result.buf
    /\ call.x.kind = "event" =>
        result = EncodingOf(call.fn, call.x.cls, call.args)
    /\ call.x.kind = "mapping" =>
        result = EncodingOf(call.fn, "ServerSentEvent",
                            [FromMapping(given) EXCEPT !.sep = call.sep])

\* C7, as claimed: bytes pass through unchanged, an event gives its own
\* encoding whatever sep is, a mapping the encoding of the event built from
\* its fields with sep, and any other x the encoding of the event whose data
\* is x and whose separator is sep.
C7_DispatchAsClaimed ==
    DispatchDone =>
        /\ DispatchRules
        /\ call.x.kind = "other" =>
            result = EncodingOf(call.fn, "ServerSentEvent", OnlyData(call.x.v, call.sep))

\* C7, amended: the same, but any other x gives the encoding of the event
\* whose data is the text str(x), so that None is sent as the payload "None".
C7_DispatchOnText ==
    DispatchDone =>
        /\ DispatchRules
        /\ call.x.kind = "other" =>
            result = EncodingOf(call.fn, "ServerSentEvent",
                                OnlyData(StrV(PyStr(call.x.v)), call.sep))

\* C7's case: ensure_bytes of event_function.py was given None and a separator
C7_Witness ==
    /\ DispatchDone
    /\ call.fn = "function.ensure_bytes"
    /\ call.x.kind = "other"
    /\ call.x.v = None
    /\ call.sep = StrV(<<LF>>)
    /\ result.buf = <<100, 97, 116, 97, 58, 32, 78, 111, 110, 101, LF, LF>>

\* the calls that end in ServerSentEventBytes.encode
ByteModeEncodeDone ==
    /\ result.status # "pending"
    /\ \/ call.fn = "class.ServerSentEventBytes.encode"
       \/ call.fn = "class.ensure_bytes" /\ call.x.cls = "ServerSentEventBytes"

\* C9, as claimed: encode of a byte-mode event re-enters encode, without end.
C9_ReentersEncode ==
    ByteModeEncodeDone => result.entered > 1

\* C9, amended: encode of a byte-mode event calls encode again with one
\* argument too many, so the call fails at once with a type error: no frame
\* is returned and the body of encode is entered once.
C9_ByteEncodeFailsAtOnce ==
    ByteModeEncodeDone =>
        /\ result.status = "TypeError"
        /\ result.buf = <<>>
        /\ result.entered = 1

\* C9's case: encode was called on a byte-mode event that has data and an id
C9_Witness ==
    /\ ByteModeEncodeDone
    /\ call.fn = "class.ServerSentEventBytes.encode"
    /\ call.args.data = BytesV(<<97, LF, 97>>)
    /\ call.args.id # None

\* the lines a client reads in a frame, then what follows its last line break
FrameLines(b) == LinesOf(b)

HasTag(line) ==
    \E tag \in {TAG_COMMENT, TAG_ID, TAG_EVENT, TAG_DATA, TAG_RETRY} :
        StartsWith(line, tag)

\* C10: with CRLF, CR or LF as the separator, a returned frame has exactly
\* one blank line, its last line, and every other line starts with a tag.
C10_OneBlankLineAtTheEnd ==
    (EncoderReturned /\ ConfiguredSep(call) \in {<<CR, LF>>, <<CR>>, <<LF>>}) =>
        LET lines == FrameLines(result.buf)
            k == Len(lines)
        IN  /\ k >= 2
            /\ lines[k] = <<>>
            /\ lines[k - 1] = <<>>
            /\ \A j \in 1..(k - 2) : HasTag(lines[j])

\* C10's case: a frame returned, under the separator CR, for an id, a comment
\* and a data value that hold newlines
C10_Witness ==
    /\ EncoderReturned
    /\ call.args.sep.s = <<CR>>
    /\ call.args.id.s = <<LF, CR, LF>>
    /\ call.args.data.t = "None"
    /\ Len(FrameLines(result.buf)) = 3

\* what a thread's call gives when it runs alone on the dict as given
Alone(t) ==
    IF call.fn = "function.ensure_bytes"
    THEN Function_ensure_bytes(call.x, given, tsep[t])
    ELSE Class_ensure_bytes(call.x, given, tsep[t])

\* C8: whatever the interleaving of the ensure_bytes calls on one mapping,
\* each call returns the buffer it returns when run alone.
C8_EachCallReturnsItsOwnBuffer ==
    \A t \in Threads : pc[t] = "done" => tres[t] = Alone(t)

====
